---- MODULE Spec2Model ----
(***************************************************************************)
(* Model of the gotoon client (src/gotoon.go): the legacy login flow       *)
(* getAccessToken, the validity check hasValidToken, refreshAccessToken    *)
(* and the three resource operations GetAgreements, GetStatus and          *)
(* GetGasFlow of one Toon value, and the conversions jsonTime, jsonBool    *)
(* and the query of GetGasFlow.                                            *)
(*                                                                         *)
(* Times are whole seconds.  A Go string is a tuple of numbers, the empty  *)
(* string being << >>.  A Go error is a record [msg, args]: the constant   *)
(* text of the message and the values formatted into it; the nil error is  *)
(* NilErr.  Every HTTP round trip draws its outcome from a small set.      *)
(***************************************************************************)
EXTENDS Integers, Sequences, FiniteSets, TLC

\* ---------------------------------------------------------------- bounds
\* The server declares lifetimes longer than the 180 s margin, and answers
\* the token POST with a token only together with status 200.  While a call
\* runs, time passes only while it waits for the token response, once and
\* for no longer than the client's timeout; between calls it passes in steps
\* of TickSteps.
StartTime == 1000          \* the wall clock when the client is constructed
MaxTime == 1840            \* the wall clock stops advancing here
MaxLogins == 2             \* token responses carrying tokens the server issues
MaxPolls == 2              \* 202 answers the server gives to one GetStatus call
MaxUnix == 1500            \* whole-second timestamps run from -MaxUnix to MaxUnix
unixToInternal == 62135    \* seconds from time.Time{} to the epoch, cut to fit

\* ------------------------------------------------------------- constants
ZeroTime == 0              \* time.Time{}, the zero value of ExpiresAt
Margin == 180              \* seconds subtracted from the declared lifetimes
Timeout == 10              \* seconds an HTTP round trip may take

Procs == {"p1", "p2"}      \* goroutines that may call into one Toon value
Ops == {"GetAgreements", "GetStatus", "GetGasFlow", "getAccessToken",
        "refreshAccessToken"}
ResourceOps == {"GetAgreements", "GetStatus", "GetGasFlow"}

AuthStatuses == {302, 200, 401}        \* answers of /authorize/legacy
TokenStatuses == {200, 400}            \* answers of /token
ResStatuses == {200, 202, 404}         \* answers of the resource endpoints
ExpiresInSet == {300, 600}             \* expires_in the server declares
RefreshExpiresInSet == {600, 1020}     \* refresh_token_expires_in it declares
Codes == {<< >>, <<7>>}                \* the code parameter of Location
TokenBodyKinds == {"full", "nofields", "syntax", "badtype"}
ResBodyKinds == {"data", "errobj", "garbage"}
TickSteps == {420}                     \* seconds one clock advance may take
AgreementIDs == {<<1>>, <<2>>}         \* AgreementID of the agreements in use

\* ------------------------------------------------------------------ state
VARIABLES
    now,          \* time.Now()
    accessToken,  \* Toon.accessToken
    issued,       \* tokens the server has issued so far
    procs,        \* the goroutines in use
    pc,           \* where each goroutine is inside its call
    op,           \* the operation each goroutine is in
    err,          \* the named result err of the running function
    code,         \* getAccessToken's local code
    tnow,         \* getAccessToken's local tnow
    isValid,      \* what hasValidToken returned to this call
    res,          \* the last HTTP response this call received
    out,          \* the value the operation returns (agreements/status/flow)
    hist,         \* per call: what the call has done so far
    agreement,    \* the AgreementID of the agreement the call was given
    calc,         \* the conversion applied last: function, arguments, result
    source        \* the token response each stored expiry was derived for

vars == <<now, accessToken, issued, procs, pc, op, err, code, tnow, isValid,
          res, out, hist, agreement, calc, source>>

\* --------------------------------------------------------------- values
\* token (src/gotoon.go:60-67), zero valued.
ZeroToken ==
    [AccessToken |-> << >>, ExpiresIn |-> 0, ExpiresAt |-> ZeroTime,
     RefreshToken |-> << >>, RefreshTokenExpiresIn |-> 0,
     RefreshTokenExpiresAt |-> ZeroTime]

NilErr == [msg |-> "", args |-> << >>]

\* errors.New(msg)
ErrorsNew(msg) == [msg |-> msg, args |-> << >>]

\* fmt.Errorf(format, arg): the message holds the format's text and arg.
Errorf(format, arg) == [msg |-> format, args |-> <<arg>>]

\* What the message of an error is made of.
Carries(e, arg) == \E i \in 1..Len(e.args) : e.args[i] = arg

BodyArg(b) == [tag |-> b.kind, v |-> <<b.id>>]
StatusArg(s) == [tag |-> "status", v |-> <<s>>]
HeaderArg(c) == [tag |-> "Location", v |-> c]

NoRes == [StatusCode |-> 0, Body |-> [kind |-> "none", id |-> 0]]
NoOut == [kind |-> "none", id |-> 0]
NoReq == [op |-> "none", agreement |-> << >>, bearer |-> << >>, at |-> 0,
          ExpiresAt |-> 0,
          RefreshTokenExpiresAt |-> 0, isValid |-> FALSE, login |-> FALSE,
          fromOneLogin |-> TRUE]

NoTokenBody ==
    [kind |-> "none", access_token |-> << >>, expires_in |-> 0,
     refresh_token |-> << >>, refresh_token_expires_in |-> 0]

\* What one call has done so far: the calls of hasValidToken it has made, the
\* POSTs and GETs it has sent, the 202 answers it has received, the first of
\* its GETs and the stored token when that went out, how its login ended
\* ("none", "ok", "failed") and what getAccessToken returned, the stored
\* token when it was called, the answer to the legacy POST (its status, 0
\* when the transport failed, and its Location: "none", "bad" when it does
\* not parse, "nocode" or "code"), when the token POST went out and when its
\* answer came, that answer, and the last authenticated request the call put
\* on the wire.
NewHist(tok) ==
    [checks |-> 0, authPosts |-> 0, tokenPosts |-> 0, requests |-> 0,
     n202 |-> 0, firstReq |-> NoReq, tokenAtFirstReq |-> ZeroToken,
     login |-> "none", loginErr |-> NilErr, tokenAtCall |-> tok,
     authStatus |-> 0, location |-> "none", postAt |-> 0, respAt |-> 0,
     tokenBody |-> NoTokenBody, tokenStatus |-> 0, lastReq |-> NoReq]

TransportErr == ErrorsNew("transport error")
ReadErr == ErrorsNew("body read error")
URLParseErr == ErrorsNew("url parse error")
JSONSyntaxErr == ErrorsNew("json: syntax error")
JSONTypeErr == ErrorsNew("json: cannot unmarshal value into Go value")
JSONStringTagErr == ErrorsNew("json: invalid use of ,string struct tag")

\* ------------------------------------------------------- pure functions
\* refreshAccessToken is a stub: it changes nothing and returns nil.
refreshAccessToken(tok) == [token |-> tok, err |-> NilErr]

\* hasValidToken, with tm the value of time.Now().  Before is strict.  The
\* address of the field accessToken is never nil, so the first test never
\* returns.
hasValidToken(tok, tm) ==
    IF tok.RefreshTokenExpiresAt < tm
    THEN FALSE
    ELSE IF tok.ExpiresAt < tm /\ refreshAccessToken(tok).err # NilErr
         THEN FALSE
         ELSE LET cur == IF tok.ExpiresAt < tm
                         THEN refreshAccessToken(tok).token ELSE tok
              IN  cur.ExpiresAt < tm

\* The stored token after hasValidToken has run.
TokenAfterCheck(tok, tm) ==
    IF ~(tok.RefreshTokenExpiresAt < tm) /\ tok.ExpiresAt < tm
    THEN refreshAccessToken(tok).token
    ELSE tok

\* json.Unmarshal(bodyBytes, &t.accessToken).  A body that is not JSON is
\* rejected before anything is stored; a JSON object stores the members it
\* has and leaves the other fields alone; a member of the wrong type is
\* skipped, its error kept, and decoding goes on.  ExpiresAt and
\* RefreshTokenExpiresAt have no JSON member in a token response.
UnmarshalToken(body, tok) ==
    CASE body.kind = "full" ->
           [token |-> [tok EXCEPT !.AccessToken = body.access_token,
                                  !.ExpiresIn = body.expires_in,
                                  !.RefreshToken = body.refresh_token,
                                  !.RefreshTokenExpiresIn =
                                      body.refresh_token_expires_in],
            err |-> NilErr]
      [] body.kind = "badtype" ->
           [token |-> [tok EXCEPT !.AccessToken = body.access_token,
                                  !.RefreshToken = body.refresh_token,
                                  !.RefreshTokenExpiresIn =
                                      body.refresh_token_expires_in],
            err |-> JSONStringTagErr]
      [] body.kind = "nofields" -> [token |-> tok, err |-> NilErr]
      [] OTHER -> [token |-> tok, err |-> JSONSyntaxErr]

\* The expiry without the safety margin.
DeriveExpiryNoMargin(t0, lifetime) == t0 + lifetime

\* ExpiresAt = tnow + (ExpiresIn - 180)s
DeriveExpiry(t0, lifetime) == t0 + (lifetime - Margin)

\* json.Unmarshal(bodyBytes, &agreements): a JSON array of records decodes;
\* a JSON object cannot be stored into a slice; anything else is no JSON.
UnmarshalAgreements(body) ==
    CASE body.kind = "data" ->
           [out |-> [kind |-> "agreements", id |-> body.id], err |-> NilErr]
      [] body.kind = "errobj" -> [out |-> NoOut, err |-> JSONTypeErr]
      [] OTHER -> [out |-> NoOut, err |-> JSONSyntaxErr]

\* json.Unmarshal(bodyBytes, &status) and (bodyBytes, &flow): a JSON object
\* without the members of the struct decodes to the zero value, no error.
UnmarshalStruct(what, body) ==
    CASE body.kind = "data" ->
           [out |-> [kind |-> what, id |-> body.id], err |-> NilErr]
      [] body.kind = "errobj" -> [out |-> NoOut, err |-> NilErr]
      [] OTHER -> [out |-> NoOut, err |-> JSONSyntaxErr]

\* ---------------------------------------------------------- conversions
\* A time.Time handed to a conversion is a record: the seconds since the Unix
\* epoch (Unix()), the nanoseconds within the second, and the location ("nil"
\* for UTC, as in the zero value, or "Local").  A byte string handed to
\* strconv is a tuple of characters.
TimeZero == [unix |-> 0 - unixToInternal, nsec |-> 0, loc |-> "nil"]

\* time.Unix(sec, nsec), nsec within one second
TimeUnix(sec, nsec) == [unix |-> sec, nsec |-> nsec, loc |-> "Local"]

\* t.Unix()
Unix(t) == t.unix

\* The milliseconds since the Unix epoch of the instant t (t.UnixMilli()).
UnixMilli(t) == 1000 * t.unix + (t.nsec \div 1000000)

\* Two times are the same instant (t.Equal(u)).
SameInstant(t, u) == t.unix = u.unix /\ t.nsec = u.nsec

Digits == <<"0", "1", "2", "3", "4", "5", "6", "7", "8", "9">>

IsDigit(c) == \E d \in 1..10 : Digits[d] = c

DigitValue(c) == (CHOOSE d \in 1..10 : Digits[d] = c) - 1

RECURSIVE FormatUint(_)
FormatUint(n) ==
    IF n < 10 THEN <<Digits[n + 1]>>
    ELSE Append(FormatUint(n \div 10), Digits[(n % 10) + 1])

\* strconv.FormatInt(n, 10), and fmt.Sprintf("%d", n)
FormatInt(n) == IF n < 0 THEN <<"-">> \o FormatUint(0 - n) ELSE FormatUint(n)

RECURSIVE ParseUint(_)
ParseUint(s) ==
    IF s = << >> THEN 0
    ELSE 10 * ParseUint(SubSeq(s, 1, Len(s) - 1)) + DigitValue(s[Len(s)])

ParseIntSyntaxErr == ErrorsNew("strconv.ParseInt: invalid syntax")

\* strconv.ParseInt(s, 10, 64): an optional sign and one digit or more.
ParseInt(s) ==
    LET signed == s # << >> /\ s[1] \in {"-", "+"}
        body == IF signed THEN Tail(s) ELSE s
    IN  IF body = << >> \/ \E i \in 1..Len(body) : ~IsDigit(body[i])
        THEN [val |-> 0, err |-> ParseIntSyntaxErr]
        ELSE [val |-> IF signed /\ s[1] = "-"
                      THEN 0 - ParseUint(body) ELSE ParseUint(body),
              err |-> NilErr]

\* Go's integer division truncates toward zero.
Quo(a, b) == IF a >= 0 THEN a \div b ELSE 0 - ((0 - a) \div b)

\* jsonTime.MarshalJSON: the seconds since the epoch, in decimal.
jsonTimeMarshalJSON(t) == [bytes |-> FormatInt(Unix(t)), err |-> NilErr]

\* jsonTime.UnmarshalJSON(s) on the target t: the number read is taken as
\* milliseconds.
jsonTimeUnmarshalJSON(s, t) ==
    LET q == ParseInt(s)
    IN  IF q.err # NilErr THEN [t |-> t, err |-> q.err]
        ELSE [t |-> TimeUnix(Quo(q.val, 1000), 0), err |-> NilErr]

\* The decoding of isSmart that clears the target when it fails.
jsonBoolUnmarshalJSONClearing(bs, b) ==
    IF bs = "1" \/ bs = "true" THEN [b |-> TRUE, err |-> NilErr]
    ELSE [b |-> FALSE,
          err |-> IF bs = "0" \/ bs = "false" THEN NilErr
                  ELSE Errorf("Cannot unmarshal value to boolean: ",
                              [tag |-> "literal", v |-> <<bs>>])]

\* jsonBool.UnmarshalJSON(s) on the target b.
jsonBoolUnmarshalJSON(bs, b) ==
    IF bs = "0" \/ bs = "false" THEN [b |-> FALSE, err |-> NilErr]
    ELSE IF bs = "1" \/ bs = "true" THEN [b |-> TRUE, err |-> NilErr]
    ELSE [b |-> b,
          err |-> Errorf("Cannot unmarshal value to boolean: ",
                         [tag |-> "literal", v |-> <<bs>>])]

\* The query with toTime left out whenever fromTime is.
GasFlowQueryTiedToFromTime(fromTime, toTime) ==
    [fromTime |-> IF TimeZero # fromTime
                  THEN FormatInt(1000 * Unix(fromTime)) ELSE << >>,
     toTime |-> IF TimeZero # fromTime /\ TimeZero # toTime
                THEN FormatInt(1000 * Unix(toTime)) ELSE << >>]

\* The query GetGasFlow adds to its request: a parameter is << >> when it is
\* left out.
GasFlowQuery(fromTime, toTime) ==
    [fromTime |-> IF TimeZero # fromTime
                  THEN FormatInt(1000 * Unix(fromTime)) ELSE << >>,
     toTime |-> IF TimeZero # toTime
                THEN FormatInt(1000 * Unix(toTime)) ELSE << >>]

NoCalc == [fn |-> "none", args |-> << >>, result |-> << >>]

\* No expiry has been derived yet.  A token response is known by the
\* access_token it carried, << >> when it carried none.
NoSource == [ExpiresAt |-> << >>, RefreshTokenExpiresAt |-> << >>]

\* ------------------------------------------------------------ the model
Init ==
    /\ now = StartTime
    /\ accessToken = ZeroToken
    /\ issued = 0
    /\ procs = {"p1"}
    /\ pc = [p \in Procs |-> "idle"]
    /\ op = [p \in Procs |-> "none"]
    /\ err = [p \in Procs |-> NilErr]
    /\ code = [p \in Procs |-> << >>]
    /\ tnow = [p \in Procs |-> 0]
    /\ isValid = [p \in Procs |-> FALSE]
    /\ res = [p \in Procs |-> NoRes]
    /\ out = [p \in Procs |-> NoOut]
    /\ hist = [p \in Procs |-> NewHist(ZeroToken)]
    /\ agreement = [p \in Procs |-> << >>]
    /\ calc = NoCalc
    /\ source = NoSource

\* Time passes between two calls.
Tick ==
    /\ \A p \in Procs : pc[p] = "idle"
    /\ \E d \in TickSteps :
         /\ now + d <= MaxTime
         /\ now' = now + d
    /\ UNCHANGED <<accessToken, issued, procs, pc, op, err, code, tnow,
                   isValid, res, out, hist, agreement, calc,
                   source>>

\* A goroutine calls o on the Toon value; the caller waits for the return.
Call(p, o) ==
    /\ p \in procs
    /\ pc[p] = "idle"
    /\ \E a \in (IF o \in {"GetStatus", "GetGasFlow"}
                THEN AgreementIDs ELSE {<< >>}) :
         agreement' = [agreement EXCEPT ![p] = a]
    /\ op' = [op EXCEPT ![p] = o]
    /\ pc' = [pc EXCEPT ![p] =
                 CASE o = "getAccessToken" -> "authorize"
                   [] o = "refreshAccessToken" -> "refresh"
                   [] OTHER -> "check"]
    /\ err' = [err EXCEPT ![p] = NilErr]
    /\ code' = [code EXCEPT ![p] = << >>]
    /\ tnow' = [tnow EXCEPT ![p] = 0]
    /\ isValid' = [isValid EXCEPT ![p] = FALSE]
    /\ res' = [res EXCEPT ![p] = NoRes]
    /\ out' = [out EXCEPT ![p] = NoOut]
    /\ hist' = [hist EXCEPT ![p] = NewHist(accessToken)]
    /\ UNCHANGED <<now, accessToken, issued, procs, calc, source>>

\* The caller has the results of the call; its locals are gone.
Return(p) ==
    /\ pc[p] = "done"
    /\ pc' = [pc EXCEPT ![p] = "idle"]
    /\ op' = [op EXCEPT ![p] = "none"]
    /\ agreement' = [agreement EXCEPT ![p] = << >>]
    /\ err' = [err EXCEPT ![p] = NilErr]
    /\ code' = [code EXCEPT ![p] = << >>]
    /\ tnow' = [tnow EXCEPT ![p] = 0]
    /\ isValid' = [isValid EXCEPT ![p] = FALSE]
    /\ res' = [res EXCEPT ![p] = NoRes]
    /\ out' = [out EXCEPT ![p] = NoOut]
    /\ hist' = [hist EXCEPT ![p] = NewHist(ZeroToken)]
    /\ UNCHANGED <<now, accessToken, issued, procs, calc, source>>

\* refreshAccessToken called on its own, as the package's test calls it.
RefreshAccessToken(p) ==
    /\ pc[p] = "refresh"
    /\ accessToken' = refreshAccessToken(accessToken).token
    /\ err' = [err EXCEPT ![p] = refreshAccessToken(accessToken).err]
    /\ pc' = [pc EXCEPT ![p] = "done"]
    /\ UNCHANGED <<now, issued, procs, op, code, tnow, isValid, res, out, hist,
                   agreement, calc, source>>

\* if !t.hasValidToken() { getAccessToken } else go on to the request.
CheckToken(p) ==
    /\ pc[p] = "check"
    /\ isValid' = [isValid EXCEPT ![p] = hasValidToken(accessToken, now)]
    /\ accessToken' = TokenAfterCheck(accessToken, now)
    /\ pc' = [pc EXCEPT ![p] =
                 IF hasValidToken(accessToken, now)
                 THEN "request" ELSE "authorize"]
    /\ hist' = [hist EXCEPT ![p] = [@ EXCEPT !.checks = @ + 1]]
    /\ UNCHANGED <<now, issued, procs, op, err, code, tnow, res, out,
                   agreement, calc, source>>

\* The resource operation goes on to its request whatever the login returned.
AfterLoginIgnoringError(p, e) ==
    IF op[p] = "getAccessToken" THEN "done" ELSE "request"

\* The resource operation logs in again when the login returned an error.
AfterLoginRetrying(p, e) ==
    IF op[p] = "getAccessToken" THEN "done"
    ELSE IF e # NilErr THEN "authorize" ELSE "request"

\* Where a call goes when getAccessToken returns e: a resource operation
\* returns e when it is an error and goes on to its request otherwise.
AfterLogin(p, e) ==
    IF op[p] = "getAccessToken" \/ e # NilErr THEN "done" ELSE "request"

\* getAccessToken returns e.
LoginReturns(p, e, h) ==
    /\ err' = [err EXCEPT ![p] = e]
    /\ pc' = [pc EXCEPT ![p] = AfterLogin(p, e)]
    /\ hist' = [hist EXCEPT ![p] =
                   [h EXCEPT !.login = IF e = NilErr THEN "ok" ELSE "failed",
                             !.loginErr = e]]

\* getAccessToken without the test of the status code.
AfterAuthorizeNoStatusCheck(transportOK, status, parseOK, loc) ==
    IF ~transportOK THEN [pc |-> "return", err |-> TransportErr, code |-> << >>]
    ELSE IF ~parseOK
    THEN [pc |-> "return", err |-> URLParseErr, code |-> << >>]
    ELSE [pc |-> "token_post",
          err |-> IF loc = << >>
                  THEN Errorf("fail extracting code, header: ", HeaderArg(loc))
                  ELSE NilErr,
          code |-> loc]

\* What getAccessToken does with the answer to the legacy POST: the next
\* place in the function, and the err and code it holds there.
AfterAuthorize(transportOK, status, parseOK, loc) ==
    IF ~transportOK THEN [pc |-> "return", err |-> TransportErr, code |-> << >>]
    ELSE IF status # 302
    THEN [pc |-> "return", err |-> ErrorsNew("invalid consumer key"),
          code |-> << >>]
    ELSE IF ~parseOK
    THEN [pc |-> "return", err |-> URLParseErr, code |-> << >>]
    ELSE [pc |-> "token_post",
          err |-> IF loc = << >>
                  THEN Errorf("fail extracting code, header: ", HeaderArg(loc))
                  ELSE NilErr,
          code |-> loc]

\* Step 2 of getAccessToken: the POST to /authorize/legacy and what follows
\* up to the extraction of the code.
AuthorizeLegacy(p) ==
    /\ pc[p] = "authorize"
    /\ \E transportOK \in BOOLEAN, status \in AuthStatuses,
          parseOK \in BOOLEAN, loc \in Codes :
         LET a == AfterAuthorize(transportOK, status, parseOK, loc)
             h == [hist[p] EXCEPT
                      !.authPosts = @ + 1,
                      !.authStatus = IF transportOK THEN status ELSE 0,
                      !.location = IF ~transportOK \/ status # 302 THEN "none"
                                   ELSE IF ~parseOK THEN "bad"
                                   ELSE IF loc = << >> THEN "nocode"
                                   ELSE "code"]
         IN  /\ code' = [code EXCEPT ![p] = a.code]
             /\ IF a.pc = "return"
                THEN LoginReturns(p, a.err, h)
                ELSE /\ err' = [err EXCEPT ![p] = a.err]
                     /\ pc' = [pc EXCEPT ![p] = a.pc]
                     /\ hist' = [hist EXCEPT ![p] = h]
    /\ UNCHANGED <<now, accessToken, issued, procs, op, tnow, isValid, res,
                   out, agreement, calc, source>>

\* Step 3: tnow := time.Now(), then the POST to /token goes out.
TokenPost(p) ==
    /\ pc[p] = "token_post"
    /\ tnow' = [tnow EXCEPT ![p] = now]
    /\ hist' = [hist EXCEPT ![p] = [@ EXCEPT !.tokenPosts = @ + 1,
                                            !.postAt = now]]
    /\ pc' = [pc EXCEPT ![p] = "token_resp"]
    /\ UNCHANGED <<now, accessToken, issued, procs, op, err, code, isValid,
                   res, out, agreement, calc, source>>

\* The token endpoint takes as long as the client's timeout allows.
ResponseDelay(p) ==
    /\ pc[p] = "token_resp"
    /\ now = hist[p].postAt
    /\ \E d \in TickSteps : (now - StartTime) % d = 0
    /\ now + Timeout <= MaxTime
    /\ now' = now + Timeout
    /\ UNCHANGED <<accessToken, issued, procs, pc, op, err, code, tnow,
                   isValid, res, out, hist, agreement, calc,
                   source>>

\* The bodies the token endpoint may answer with.
TokenBodies ==
    {[kind |-> k, access_token |-> <<issued + 1>>, expires_in |-> ei,
      refresh_token |-> <<issued + 1>>, refresh_token_expires_in |-> ri] :
        k \in {"full", "badtype"}, ei \in ExpiresInSet,
        ri \in RefreshExpiresInSet}
    \cup {[NoTokenBody EXCEPT !.kind = k] : k \in {"nofields", "syntax"}}

\* The answer to the token POST arrives: PostForm's error, ReadAll's error,
\* or a body that is unmarshalled into t.accessToken.  The status code is
\* not looked at.  An answer other than 200 carries no token.
TokenResponse(p) ==
    /\ pc[p] = "token_resp"
    /\ \/ /\ \E e \in {TransportErr, ReadErr} :
               LoginReturns(p, e, [hist[p] EXCEPT !.respAt = now])
          /\ UNCHANGED <<accessToken, issued>>
       \/ \E status \in TokenStatuses, body \in TokenBodies :
            LET u == UnmarshalToken(body, accessToken)
                h == [hist[p] EXCEPT !.tokenBody = body,
                                     !.tokenStatus = status,
                                     !.respAt = now]
            IN  /\ body.kind \in {"full", "badtype"} => issued < MaxLogins
                /\ status # 200 => body.kind \in {"nofields", "syntax"}
                /\ issued' = IF body.kind \in {"full", "badtype"}
                             THEN issued + 1 ELSE issued
                /\ accessToken' = u.token
                /\ IF u.err # NilErr
                   THEN LoginReturns(p, u.err, h)
                   ELSE /\ err' = [err EXCEPT ![p] = NilErr]
                        /\ pc' = [pc EXCEPT ![p] = "derive_access"]
                        /\ hist' = [hist EXCEPT ![p] = h]
    /\ UNCHANGED <<now, procs, op, code, tnow, isValid, res, out, agreement,
                   calc, source>>

\* t.accessToken.ExpiresAt = tnow.Add(...)
DeriveExpiresAt(p) ==
    /\ pc[p] = "derive_access"
    /\ accessToken' = [accessToken EXCEPT !.ExpiresAt =
                          DeriveExpiry(tnow[p], accessToken.ExpiresIn)]
    /\ source' = [source EXCEPT !.ExpiresAt = hist[p].tokenBody.access_token]
    /\ pc' = [pc EXCEPT ![p] = "derive_refresh"]
    /\ UNCHANGED <<now, issued, procs, op, err, code, tnow, isValid, res,
                   out, hist, agreement, calc>>

\* t.accessToken.RefreshTokenExpiresAt = tnow.Add(...); return
DeriveRefreshTokenExpiresAt(p) ==
    /\ pc[p] = "derive_refresh"
    /\ accessToken' = [accessToken EXCEPT !.RefreshTokenExpiresAt =
                          DeriveExpiry(tnow[p],
                                       accessToken.RefreshTokenExpiresIn)]
    /\ source' = [source EXCEPT !.RefreshTokenExpiresAt =
                                    hist[p].tokenBody.access_token]
    /\ LoginReturns(p, NilErr, hist[p])
    /\ UNCHANGED <<now, issued, procs, op, code, tnow, isValid, res, out,
                   agreement, calc>>

\* The bodies a resource endpoint may answer with.
BodyIds == {1, 2}
ResBodies == {[kind |-> k, id |-> i] : k \in ResBodyKinds, i \in BodyIds}

\* The stored access token and the two stored expiries are those of one token
\* response: the token string it carried, and the expiries that the login
\* which received it derived.
FromOneLogin(tok) ==
    /\ tok.AccessToken = source.ExpiresAt
    /\ tok.AccessToken = source.RefreshTokenExpiresAt

\* The authenticated request as it goes on the wire (GetStatus and GetGasFlow
\* put the AgreementID of their argument in the path), with the stored expiries
\* and what the call had done when it was sent.
Request(p) ==
    [op |-> op[p], agreement |-> agreement[p],
     bearer |-> accessToken.AccessToken, at |-> now,
     ExpiresAt |-> accessToken.ExpiresAt,
     RefreshTokenExpiresAt |-> accessToken.RefreshTokenExpiresAt,
     isValid |-> isValid[p], login |-> hist[p].login = "ok",
     fromOneLogin |-> FromOneLogin(accessToken)]

\* GetAgreements without the test of the status code.
AgreementsResultNoStatusCheck(status, body) == UnmarshalAgreements(body)

\* GetAgreements from the response on.
AgreementsResult(status, body) ==
    IF status # 200
    THEN [out |-> NoOut, err |-> Errorf("Cannot get agreements: ", BodyArg(body))]
    ELSE UnmarshalAgreements(body)

\* GetStatus's loop taking every status other than 200 as an error.
StatusResultStopsOn202(status, body) ==
    IF status = 200
    THEN [again |-> FALSE, out |-> UnmarshalStruct("status", body).out,
          err |-> UnmarshalStruct("status", body).err]
    ELSE [again |-> FALSE, out |-> NoOut,
          err |-> Errorf("Error getting status: ", BodyArg(body))]

\* GetStatus's loop going round on every status other than 200.
StatusResultRetriesAll(status, body) ==
    IF status = 200
    THEN [again |-> FALSE, out |-> UnmarshalStruct("status", body).out,
          err |-> UnmarshalStruct("status", body).err]
    ELSE [again |-> TRUE, out |-> NoOut, err |-> NilErr]

\* One round of GetStatus's loop from the response on; again = TRUE when the
\* loop goes round once more.
StatusResult(status, body) ==
    IF status = 200
    THEN [again |-> FALSE, out |-> UnmarshalStruct("status", body).out,
          err |-> UnmarshalStruct("status", body).err]
    ELSE IF status # 202
    THEN [again |-> FALSE, out |-> NoOut,
          err |-> Errorf("Error getting status: ", BodyArg(body))]
    ELSE [again |-> TRUE, out |-> NoOut, err |-> NilErr]

\* GetGasFlow from the response on: the error set for a status other than
\* 200 is overwritten by the result of json.Unmarshal.
GasFlowResult(status, body) ==
    LET e == IF status # 200
             THEN Errorf("Error getting gas consumption flow: ", BodyArg(body))
             ELSE NilErr
        u == UnmarshalStruct("flow", body)
    IN  [out |-> u.out, err |-> u.err]

\* The call's record once its next request has gone out.  The requests are
\* counted up to MaxPolls + 1, the most one call gets to send.
Sent(p) ==
    [hist[p] EXCEPT !.requests = IF @ <= MaxPolls THEN @ + 1 ELSE @,
                    !.lastReq = Request(p),
                    !.firstReq = IF hist[p].requests = 0 THEN Request(p) ELSE @,
                    !.tokenAtFirstReq =
                        IF hist[p].requests = 0 THEN accessToken ELSE @]

\* The loop of GetStatus going back to the validity check on a 202.
StatusLoopHeadAtCheck == "check"

\* Where GetStatus goes on a 202: the top of its for loop, which builds and
\* sends the request again.
StatusLoopHead == "request"

\* c.Do(req) or ioutil.ReadAll fails: the operation returns that error.
RequestFails(p) ==
    /\ pc[p] = "request"
    /\ op[p] \in ResourceOps
    /\ hist' = [hist EXCEPT ![p] = Sent(p)]
    /\ \E e \in {TransportErr, ReadErr} : err' = [err EXCEPT ![p] = e]
    /\ pc' = [pc EXCEPT ![p] = "done"]
    /\ UNCHANGED <<now, accessToken, issued, procs, op, code, tnow, isValid,
                   res, out, agreement, calc, source>>

GetAgreementsRequest(p) ==
    /\ pc[p] = "request"
    /\ op[p] = "GetAgreements"
    /\ hist' = [hist EXCEPT ![p] = Sent(p)]
    /\ \E status \in ResStatuses, body \in ResBodies :
         /\ res' = [res EXCEPT ![p] = [StatusCode |-> status, Body |-> body]]
         /\ out' = [out EXCEPT ![p] = AgreementsResult(status, body).out]
         /\ err' = [err EXCEPT ![p] = AgreementsResult(status, body).err]
    /\ pc' = [pc EXCEPT ![p] = "done"]
    /\ UNCHANGED <<now, accessToken, issued, procs, op, code, tnow, isValid,
                   agreement, calc, source>>

\* One round of the loop: the request, its answer, and break or go round.
\* The server answers 202 at most MaxPolls times to one call.
GetStatusRequest(p) ==
    /\ pc[p] = "request"
    /\ op[p] = "GetStatus"
    /\ \E status \in ResStatuses, body \in ResBodies :
         LET r == StatusResult(status, body)
         IN  /\ status = 202 => hist[p].n202 < MaxPolls
             /\ hist' = [hist EXCEPT ![p] =
                            [Sent(p) EXCEPT !.n202 = IF status = 202
                                                     THEN @ + 1 ELSE @]]
             /\ res' = [res EXCEPT ![p] =
                           [StatusCode |-> status, Body |-> body]]
             /\ out' = [out EXCEPT ![p] = r.out]
             /\ err' = [err EXCEPT ![p] = r.err]
             /\ pc' = [pc EXCEPT ![p] =
                          IF r.again THEN StatusLoopHead ELSE "done"]
    /\ UNCHANGED <<now, accessToken, issued, procs, op, code, tnow, isValid,
                   agreement, calc, source>>

\* The request of GetGasFlow and its answer.  The query of the request is
\* GasFlowQuery of the two timestamps; nothing that follows depends on it.
GetGasFlowRequest(p) ==
    /\ pc[p] = "request"
    /\ op[p] = "GetGasFlow"
    /\ hist' = [hist EXCEPT ![p] = Sent(p)]
    /\ \E status \in ResStatuses, body \in ResBodies :
         /\ res' = [res EXCEPT ![p] = [StatusCode |-> status, Body |-> body]]
         /\ out' = [out EXCEPT ![p] = GasFlowResult(status, body).out]
         /\ err' = [err EXCEPT ![p] = GasFlowResult(status, body).err]
    /\ pc' = [pc EXCEPT ![p] = "done"]
    /\ UNCHANGED <<now, accessToken, issued, procs, op, code, tnow, isValid,
                   agreement, calc, source>>

Next ==
    \/ Tick
    \/ \E p \in Procs, o \in Ops : Call(p, o)
    \/ \E p \in Procs : Return(p)
    \/ \E p \in Procs : RefreshAccessToken(p)
    \/ \E p \in Procs : CheckToken(p)
    \/ \E p \in Procs : AuthorizeLegacy(p)
    \/ \E p \in Procs : TokenPost(p)
    \/ \E p \in Procs : ResponseDelay(p)
    \/ \E p \in Procs : TokenResponse(p)
    \/ \E p \in Procs : DeriveExpiresAt(p)
    \/ \E p \in Procs : DeriveRefreshTokenExpiresAt(p)
    \/ \E p \in Procs : RequestFails(p)
    \/ \E p \in Procs : GetAgreementsRequest(p)
    \/ \E p \in Procs : GetStatusRequest(p)
    \/ \E p \in Procs : GetGasFlowRequest(p)

\* One goroutine uses the Toon value: every call returns before the next.
Spec == Init /\ [][Next]_vars

\* What goroutine p does next inside the call it is in.
Step(p) ==
    \/ RefreshAccessToken(p)
    \/ CheckToken(p)
    \/ AuthorizeLegacy(p)
    \/ TokenPost(p)
    \/ TokenResponse(p)
    \/ DeriveExpiresAt(p)
    \/ DeriveRefreshTokenExpiresAt(p)
    \/ RequestFails(p)
    \/ GetAgreementsRequest(p)
    \/ GetStatusRequest(p)
    \/ GetGasFlowRequest(p)

\* A call is synchronous: a goroutine inside a call keeps running, and every
\* round trip it waits for ends within the client's timeout, with an answer
\* or with an error.  The transport answers 202 to one GetStatus call at most
\* MaxPolls times: eventually it answers with something else.
\* The client is used for GetStatus calls only, all for one agreement; the
\* server issues one token, and its answers differ in status and kind only.
StatusCallsOnly ==
    /\ issued' <= 1
    /\ \A p \in Procs :
           /\ op'[p] \in {"none", "GetStatus"}
           /\ agreement'[p] \in {<< >>, <<1>>}
           /\ res'[p].Body.id <= 1

NextStatus == Next /\ StatusCallsOnly

SpecLive ==
    Init /\ [][NextStatus]_vars /\ \A p \in Procs : WF_vars(Step(p))

\* Two goroutines call into one Toon value with nothing between them: the
\* statements of their calls interleave, and so do their reads and writes of
\* t.accessToken.
InitConcurrent ==
    /\ now = StartTime
    /\ accessToken = ZeroToken
    /\ issued = 0
    /\ procs = Procs
    /\ pc = [p \in Procs |-> "idle"]
    /\ op = [p \in Procs |-> "none"]
    /\ err = [p \in Procs |-> NilErr]
    /\ code = [p \in Procs |-> << >>]
    /\ tnow = [p \in Procs |-> 0]
    /\ isValid = [p \in Procs |-> FALSE]
    /\ res = [p \in Procs |-> NoRes]
    /\ out = [p \in Procs |-> NoOut]
    /\ hist = [p \in Procs |-> NewHist(ZeroToken)]
    /\ agreement = [p \in Procs |-> << >>]
    /\ calc = NoCalc
    /\ source = NoSource

\* Each goroutine calls GetAgreements once, on a client constructed just
\* before; the server answers every login as documented, and its other
\* answers differ in status and kind only.
AgreementsCallsOnly ==
    /\ now' - StartTime <= Timeout
    /\ \A p \in Procs :
           /\ op'[p] \in {"none", "GetAgreements"}
           /\ pc[p] = "done" => pc'[p] = "done"
           /\ res'[p].Body.id <= 1
           /\ hist'[p].login # "failed"
           /\ hist'[p].location \in {"none", "code"}
           /\ hist'[p].tokenBody.kind \in {"none", "full"}

NextConcurrent == Next /\ AgreementsCallsOnly

SpecConcurrent == InitConcurrent /\ [][NextConcurrent]_vars

\* The same client against a server that answers every login as documented:
\* a login that returns success got a Location with a code and a token
\* response with all four members.
DocumentedLogin ==
    \A p \in Procs :
        hist'[p].login = "ok" =>
            /\ hist'[p].location = "code"
            /\ hist'[p].tokenBody.kind = "full"

NextDocumented == Next /\ DocumentedLogin

SpecDocumented == Init /\ [][NextDocumented]_vars

\* ------------------------------------------------- the conversions at work
\* The timestamps handed to GetGasFlow and the literals and timestamps the
\* decoder hands to the two UnmarshalJSON methods.  The conversions keep no
\* state: a behaviour applies one of them to one input.
QueryTimes ==
    {[unix |-> u, nsec |-> n, loc |-> l] :
        u \in {0 - unixToInternal, -2, 0, 1, MaxUnix},
        n \in {0, 500000000}, l \in {"nil", "Local"}}

WholeSecondTimes ==
    {[unix |-> u, nsec |-> 0, loc |-> l] :
        u \in (0 - MaxUnix)..MaxUnix, l \in {"nil", "Local"}}

BoolLiterals ==
    {"0", "1", "false", "true", "2", "-1", "null", "True", "FALSE", "yes",
     "\"true\"", "01", "1.0", ""}

\* GetGasFlow builds the query of its request from fromTime and toTime.
BuildGasFlowQuery ==
    /\ calc = NoCalc
    /\ \E fromTime \in QueryTimes, toTime \in QueryTimes :
         calc' = [fn |-> "GasFlowQuery", args |-> <<fromTime, toTime>>,
                  result |-> GasFlowQuery(fromTime, toTime)]
    /\ UNCHANGED <<now, accessToken, issued, procs, pc, op, err, code, tnow,
                   isValid, res, out, hist, agreement,
                   source>>

\* The decoder meets the member isSmart: literal bs, target holding b.
DecodeIsSmart ==
    /\ calc = NoCalc
    /\ \E bs \in BoolLiterals, b \in BOOLEAN :
         calc' = [fn |-> "jsonBool.UnmarshalJSON", args |-> <<bs, b>>,
                  result |-> jsonBoolUnmarshalJSON(bs, b)]
    /\ UNCHANGED <<now, accessToken, issued, procs, pc, op, err, code, tnow,
                   isValid, res, out, hist, agreement,
                   source>>

\* A jsonTime is marshalled and the bytes are unmarshalled into a jsonTime
\* that held the zero value.
MarshalThenUnmarshalTime ==
    /\ calc = NoCalc
    /\ \E t \in WholeSecondTimes :
         LET m == jsonTimeMarshalJSON(t)
             u == jsonTimeUnmarshalJSON(m.bytes, TimeZero)
         IN  calc' = [fn |-> "jsonTime round trip", args |-> <<t>>,
                      result |-> [bytes |-> m.bytes, marshalErr |-> m.err,
                                  t |-> u.t, err |-> u.err]]
    /\ UNCHANGED <<now, accessToken, issued, procs, pc, op, err, code, tnow,
                   isValid, res, out, hist, agreement,
                   source>>

NextCodec ==
    \/ BuildGasFlowQuery
    \/ DecodeIsSmart
    \/ MarshalThenUnmarshalTime

SpecCodec == Init /\ [][NextCodec]_vars

\* ------------------------------------------------------------ the claims
\* The token is wholly valid at tm: tm is before both expiries.
WhollyValid(tok, tm) ==
    tm < tok.ExpiresAt /\ tm < tok.RefreshTokenExpiresAt

\* C1: for every stored token and every clock value, hasValidToken returns
\* true if and only if now is before the access expiry and before the refresh
\* expiry, and false at or after either of them.
C1_ValidIffBeforeBothExpiries ==
    hasValidToken(accessToken, now) <=> WhollyValid(accessToken, now)

\* C2: no authenticated request is ever sent carrying a token whose access
\* expiry or refresh expiry is at or before the time it is sent.
C2_NoRequestWithExpiredToken ==
    \A p \in Procs :
        hist[p].lastReq.op # "none" =>
            /\ hist[p].lastReq.at < hist[p].lastReq.ExpiresAt
            /\ hist[p].lastReq.at < hist[p].lastReq.RefreshTokenExpiresAt

\* C3: a resource operation called on a client without a token, or whose
\* token fails hasValidToken, runs getAccessToken, and getAccessToken has
\* returned without error before the authenticated request is sent.
C3_LoginCompletesBeforeRequest ==
    \A p \in Procs :
        (op[p] \in ResourceOps /\ pc[p] # "check") =>
            /\ hist[p].tokenAtCall = ZeroToken => ~isValid[p]
            /\ ~isValid[p] => (pc[p] = "authorize" \/ hist[p].authPosts = 1)
            /\ (~isValid[p] /\ pc[p] = "request") => hist[p].login = "ok"
            /\ (~isValid[p] /\ hist[p].lastReq.op # "none") =>
                   /\ hist[p].lastReq.login
                   /\ ~hist[p].lastReq.isValid

C3_Witness ==
    \E p \in Procs :
        /\ op[p] \in ResourceOps
        /\ hist[p].tokenAtCall = ZeroToken
        /\ ~isValid[p]
        /\ hist[p].lastReq.op # "none"
        /\ hist[p].lastReq.login

\* C4: after a successful getAccessToken whose token POST went out at t0 and
\* whose response declares expires_in and refresh_token_expires_in, the
\* stored ExpiresAt is t0 + expires_in - 180 and the stored
\* RefreshTokenExpiresAt is t0 + refresh_token_expires_in - 180, t0 being the
\* time before the POST and not the time its answer came.
C4_ExpiriesFromRequestTime ==
    \A p \in procs :
        (hist[p].login = "ok" /\ hist[p].tokenBody.kind = "full") =>
            /\ accessToken.ExpiresAt =
                   hist[p].postAt + hist[p].tokenBody.expires_in - 180
            /\ accessToken.RefreshTokenExpiresAt =
                   hist[p].postAt
                       + hist[p].tokenBody.refresh_token_expires_in - 180

C4_Witness ==
    \E p \in procs :
        /\ hist[p].login = "ok"
        /\ hist[p].tokenBody.kind = "full"
        /\ hist[p].tokenBody.expires_in = 600
        /\ hist[p].respAt > hist[p].postAt
        /\ accessToken.ExpiresAt = hist[p].postAt + 420

\* C5: when the first k status requests are answered 202 and the next one
\* 200 with a valid body, GetStatus has sent exactly k + 1 requests and
\* returns the parsed body with no error; a 202 answer never ends the call.
C5_PollsUntil200 ==
    \A p \in Procs :
        op[p] = "GetStatus" =>
            /\ (pc[p] = "done" /\ res[p].StatusCode = 200
                    /\ res[p].Body.kind = "data") =>
                   /\ hist[p].requests = hist[p].n202 + 1
                   /\ err[p] = NilErr
                   /\ out[p] = [kind |-> "status", id |-> res[p].Body.id]
            /\ (pc[p] = "done" /\ res[p].StatusCode = 202) =>
                   /\ err[p] \in {TransportErr, ReadErr}
                   /\ hist[p].requests = hist[p].n202 + 1
            /\ (pc[p] = "request" /\ hist[p].requests > 0) =>
                   /\ res[p].StatusCode = 202
                   /\ hist[p].requests = hist[p].n202

C5_Witness ==
    \E p \in Procs :
        /\ op[p] = "GetStatus"
        /\ pc[p] = "done"
        /\ res[p].StatusCode = 200
        /\ res[p].Body.kind = "data"
        /\ hist[p].n202 = 2
        /\ hist[p].requests = 3
        /\ err[p] = NilErr

\* C6: a status answer other than 200 and 202 ends GetStatus at once with an
\* error carrying the response body, no further status request and no
\* parsed status, whether it is the first answer or follows 202 answers.
C6_OtherStatusIsTerminal ==
    \A p \in Procs :
        (op[p] = "GetStatus" /\ res[p].StatusCode \notin {0, 200, 202}) =>
            /\ pc[p] = "done"
            /\ err[p] # NilErr
            /\ Carries(err[p], BodyArg(res[p].Body))
            /\ out[p] = NoOut
            /\ hist[p].requests = hist[p].n202 + 1

C6_Witness ==
    \E p \in Procs :
        /\ op[p] = "GetStatus"
        /\ res[p].StatusCode = 404
        /\ hist[p].n202 = 2
        /\ pc[p] = "done"
        /\ err[p] # NilErr

\* C7: when the legacy authorization POST is answered with a status other
\* than 302, getAccessToken fails with an error, the token endpoint is never
\* contacted and the stored token is left unchanged.
C7_NotRedirectFailsLogin ==
    \A p \in procs :
        (hist[p].authPosts = 1 /\ hist[p].authStatus \notin {0, 302}) =>
            /\ hist[p].login = "failed"
            /\ pc[p] = "done"
            /\ err[p] = ErrorsNew("invalid consumer key")
            /\ hist[p].tokenPosts = 0
            /\ hist[p].requests = 0
            /\ accessToken = hist[p].tokenAtCall

C7_Witness ==
    \E p \in procs :
        /\ hist[p].authStatus = 401
        /\ hist[p].login = "failed"
        /\ hist[p].tokenAtCall # ZeroToken
        /\ accessToken = hist[p].tokenAtCall

\* C8: when the Location of the 302 answer carries no code, getAccessToken
\* fails with the code-extraction error, which includes the headers; it does
\* not post to the token endpoint and does not return success.
C8_NoCodeFailsLogin ==
    \A p \in Procs :
        hist[p].location = "nocode" =>
            /\ hist[p].tokenPosts = 0
            /\ hist[p].login # "ok"
            /\ Carries(err[p], HeaderArg(<< >>))

\* C9: every failure of the token exchange is returned as an error: when
\* getAccessToken returns success the token endpoint answered 200 with the
\* token fields, and the stored token holds a non-empty access token and
\* expiries computed from the lifetimes of that response.
C9_SuccessMeansTokenStored ==
    \A p \in procs :
        hist[p].login = "ok" =>
            /\ hist[p].tokenStatus = 200
            /\ hist[p].tokenBody.kind = "full"
            /\ accessToken.AccessToken # << >>
            /\ accessToken.ExpiresAt =
                   hist[p].postAt + hist[p].tokenBody.expires_in - 180

\* C10, as stated: an agreements answer other than 200 makes GetAgreements
\* return an error carrying the status code and the body text, and no
\* agreements.
C10_ErrorCarriesStatusAndBody ==
    \A p \in Procs :
        (op[p] = "GetAgreements" /\ res[p].StatusCode \notin {0, 200}) =>
            /\ err[p] # NilErr
            /\ Carries(err[p], StatusArg(res[p].StatusCode))
            /\ Carries(err[p], BodyArg(res[p].Body))
            /\ out[p] = NoOut

\* C10, amended: an agreements answer other than 200 makes GetAgreements
\* return an error carrying the body text, and no agreements; the body is
\* parsed as agreements only when the status is 200.
C10_ErrorCarriesBody ==
    \A p \in Procs :
        op[p] = "GetAgreements" =>
            /\ res[p].StatusCode \notin {0, 200} =>
                   /\ pc[p] = "done"
                   /\ err[p] # NilErr
                   /\ Carries(err[p], BodyArg(res[p].Body))
                   /\ out[p] = NoOut
            /\ out[p] # NoOut => res[p].StatusCode = 200

C10_Witness ==
    \E p \in Procs :
        /\ op[p] = "GetAgreements"
        /\ pc[p] = "done"
        /\ res[p].StatusCode = 404
        /\ res[p].Body.kind = "data"
        /\ Carries(err[p], BodyArg(res[p].Body))

\* C11: a gas-flow answer whose status is not 200 makes GetGasFlow return a
\* non-nil error carrying the body text, whatever the body is (well-formed
\* JSON included); GetGasFlow never returns success for such an answer.
C11_GasFlowNon200IsError ==
    \A p \in Procs :
        (op[p] = "GetGasFlow" /\ pc[p] = "done"
             /\ res[p].StatusCode \notin {0, 200}) =>
            /\ err[p] # NilErr
            /\ Carries(err[p], BodyArg(res[p].Body))

\* C12: when refreshAccessToken, called on a client that holds a token,
\* returns without an error, the stored token differs from the token that
\* was stored before the call.
C12_RefreshRenewsToken ==
    \A p \in Procs :
        (op[p] = "refreshAccessToken" /\ pc[p] = "done" /\ err[p] = NilErr
             /\ hist[p].tokenAtCall.AccessToken # << >>) =>
            accessToken # hist[p].tokenAtCall

\* C13: in the gas-flow query each of fromTime and toTime is left out when the
\* timestamp is the zero-value sentinel, independently of the other, and is
\* otherwise included as the integer number of milliseconds since the Unix
\* epoch of that timestamp.
C13_QueryInMilliseconds ==
    calc.fn = "GasFlowQuery" =>
        /\ calc.result.fromTime =
               IF calc.args[1] = TimeZero THEN << >>
               ELSE FormatInt(UnixMilli(calc.args[1]))
        /\ calc.result.toTime =
               IF calc.args[2] = TimeZero THEN << >>
               ELSE FormatInt(UnixMilli(calc.args[2]))

\* C13, amended: each of fromTime and toTime is left out when the timestamp is
\* the zero value, independently of the other, and is otherwise included as
\* 1000 times the whole seconds since the Unix epoch: the milliseconds since
\* the epoch when the timestamp falls on a whole second, and those of the
\* second it falls in otherwise.
C13_QueryInWholeSeconds ==
    calc.fn = "GasFlowQuery" =>
        /\ calc.result.fromTime =
               IF calc.args[1] = TimeZero THEN << >>
               ELSE FormatInt(UnixMilli(calc.args[1])
                                  - (calc.args[1].nsec \div 1000000))
        /\ calc.result.toTime =
               IF calc.args[2] = TimeZero THEN << >>
               ELSE FormatInt(UnixMilli(calc.args[2])
                                  - (calc.args[2].nsec \div 1000000))
        /\ calc.args[1].nsec = 0 /\ calc.args[1] # TimeZero =>
               ParseInt(calc.result.fromTime).val = UnixMilli(calc.args[1])
        /\ calc.args[2].nsec = 0 /\ calc.args[2] # TimeZero =>
               ParseInt(calc.result.toTime).val = UnixMilli(calc.args[2])

C13_Witness ==
    /\ calc.fn = "GasFlowQuery"
    /\ calc.args[1] = TimeZero
    /\ calc.result.fromTime = << >>
    /\ calc.args[2] = [unix |-> MaxUnix, nsec |-> 500000000, loc |-> "Local"]
    /\ calc.result.toTime = FormatInt(1000 * MaxUnix)
    /\ calc.result.toTime # FormatInt(UnixMilli(calc.args[2]))

\* C14: decoding isSmart maps the literal 0 to false, 1 to true, false to
\* false and true to true; every other literal returns a decode error and
\* leaves the target as it was.
C14_IsSmartDecoding ==
    calc.fn = "jsonBool.UnmarshalJSON" =>
        LET bs == calc.args[1]
            b == calc.args[2]
            r == calc.result
        IN  /\ bs \in {"0", "false"} => (r.err = NilErr /\ r.b = FALSE)
            /\ bs \in {"1", "true"} => (r.err = NilErr /\ r.b = TRUE)
            /\ bs \notin {"0", "1", "false", "true"} =>
                   (r.err # NilErr /\ r.b = b)

C14_Witness ==
    /\ calc.fn = "jsonBool.UnmarshalJSON"
    /\ calc.args = <<"null", TRUE>>
    /\ calc.result.err # NilErr
    /\ calc.result.b = TRUE

\* C15: for every whole-second timestamp, jsonTime.MarshalJSON followed by
\* jsonTime.UnmarshalJSON of the bytes it wrote yields the same instant.
C15_TimeRoundTrip ==
    calc.fn = "jsonTime round trip" =>
        /\ calc.result.marshalErr = NilErr
        /\ calc.result.err = NilErr
        /\ SameInstant(calc.result.t, calc.args[1])

\* C16: a resource operation called while the stored token is wholly valid
\* sends its request with that token and performs no login, and the stored
\* token stays the one it was called with; so two resource calls made one
\* after the other right after one login perform one login in total.
C16_ValidTokenIsReused ==
    \A p \in Procs :
        (op[p] \in ResourceOps /\ pc[p] # "check"
             /\ WhollyValid(hist[p].tokenAtCall, now)) =>
            /\ pc[p] \in {"request", "done"}
            /\ hist[p].authPosts = 0
            /\ hist[p].tokenPosts = 0
            /\ accessToken = hist[p].tokenAtCall
            /\ hist[p].lastReq.op # "none" =>
                   hist[p].lastReq.bearer = hist[p].tokenAtCall.AccessToken

\* C17: when the login made inside a resource operation fails, the operation
\* returns the login's error, sends no authenticated request and does not log
\* in again: one resource call sends at most one authorization POST and at
\* most one token POST.
C17_FailedLoginEndsTheCall ==
    \A p \in Procs :
        op[p] \in ResourceOps =>
            /\ hist[p].authPosts <= 1
            /\ hist[p].tokenPosts <= 1
            /\ hist[p].login = "failed" =>
                   /\ pc[p] = "done"
                   /\ err[p] # NilErr
                   /\ err[p] = hist[p].loginErr
                   /\ hist[p].requests = 0
                   /\ hist[p].lastReq = NoReq
                   /\ out[p] = NoOut

C17_Witness ==
    \E p \in Procs :
        /\ op[p] \in ResourceOps
        /\ hist[p].login = "failed"
        /\ hist[p].authPosts = 1
        /\ hist[p].tokenPosts = 1
        /\ err[p] = JSONSyntaxErr
        /\ pc[p] = "done"

\* C18: a failed login leaves no partial token state: whenever getAccessToken
\* returns an error, a token response that fails to decode part-way included,
\* the four stored token fields (access token, refresh token and the two
\* expiries) are what they were before the call.
C18_FailedLoginKeepsToken ==
    \A p \in Procs :
        (p \in procs /\ hist[p].login = "failed") =>
            /\ accessToken.AccessToken = hist[p].tokenAtCall.AccessToken
            /\ accessToken.RefreshToken = hist[p].tokenAtCall.RefreshToken
            /\ accessToken.ExpiresAt = hist[p].tokenAtCall.ExpiresAt
            /\ accessToken.RefreshTokenExpiresAt =
                   hist[p].tokenAtCall.RefreshTokenExpiresAt

\* C20: during one GetStatus call every status request sent again after a 202
\* is the same as the first (same agreement id, same bearer token); the loop
\* neither checks the token's validity again nor logs in, and the stored
\* token stays what it was when the first status request went out.
C20_PollingRepeatsFirstRequest ==
    \A p \in Procs :
        (op[p] = "GetStatus" /\ hist[p].requests >= 1) =>
            /\ hist[p].firstReq.agreement = agreement[p]
            /\ hist[p].lastReq.op = hist[p].firstReq.op
            /\ hist[p].lastReq.agreement = hist[p].firstReq.agreement
            /\ hist[p].lastReq.bearer = hist[p].firstReq.bearer
            /\ hist[p].checks = 1
            /\ pc[p] \in {"request", "done"}
            /\ hist[p].authPosts =
                   (IF hist[p].firstReq.login THEN 1 ELSE 0)
            /\ accessToken = hist[p].tokenAtFirstReq

C20_Witness ==
    \E p \in Procs :
        /\ op[p] = "GetStatus"
        /\ pc[p] = "done"
        /\ hist[p].n202 = MaxPolls
        /\ hist[p].requests = MaxPolls + 1
        /\ res[p].StatusCode = 200
        /\ hist[p].firstReq.login
        /\ hist[p].lastReq.bearer # << >>

\* C19: provided the transport eventually answers with something other than
\* 202, every GetStatus call returns; the loop has no cap of its own, so the
\* call returns only after an answer other than 202 or a failed round trip.
C19_GetStatusReturns ==
    \A p \in Procs : (op[p] = "GetStatus") ~> (pc[p] = "done")

C19_Witness ==
    \E p \in Procs :
        /\ op[p] = "GetStatus"
        /\ pc[p] = "done"
        /\ hist[p].n202 = MaxPolls
        /\ res[p].StatusCode = 404

\* C21, for serialized calls: whenever a request goes out and whenever no
\* call is in progress, the stored access token and both stored expiries come
\* from the same login response.
C21_SerializedTokenFromOneLogin ==
    /\ (\A p \in Procs : pc[p] = "idle") => FromOneLogin(accessToken)
    /\ \A p \in Procs : hist[p].lastReq.fromOneLogin

\* C21, concurrent calls: a request went out carrying the access token of one
\* login and, at that moment, the expiries of another: the other goroutine's
\* login had stored its token string and not yet its expiries.
C21_TornRead ==
    \E p \in Procs, q \in Procs :
        /\ p # q
        /\ hist[p].lastReq.op = "GetAgreements"
        /\ ~hist[p].lastReq.fromOneLogin
        /\ hist[p].lastReq.bearer = hist[q].tokenBody.access_token
        /\ hist[p].lastReq.bearer # hist[p].tokenBody.access_token
        /\ pc[q] \in {"derive_access", "derive_refresh"}

\* C21, concurrent calls: both goroutines performed a full login.
C21_BothLogIn ==
    \A p \in Procs :
        /\ hist[p].login = "ok"
        /\ hist[p].authPosts = 1
        /\ hist[p].tokenPosts = 1
        /\ hist[p].tokenBody.kind = "full"

====
